---- MODULE Spec2Model ----
(***************************************************************************)
(* Model of the Maelstrom node of src/src/main.rs: the Node state, the     *)
(* dispatch of Node::step over the twelve Payload variants, the reply      *)
(* construction of Message::reply and the read loop of main.               *)
(*                                                                         *)
(* Option<T> is modelled as a sequence of length at most one: None is <<>> *)
(* and Some(v) is <<v>>.  Strings are TLA+ strings, concatenated with \o.  *)
(* usize arithmetic is unbounded here: msg_id never exceeds the number of  *)
(* records read, which MaxSteps bounds far below 2^64.                     *)
(*                                                                         *)
(* What becomes of a write to stdout is the environment's choice:          *)
(*   - it returns Ok and the envelope is on stdout;                        *)
(*   - it returns Ok and nothing is on stdout: fd 1 is not open for        *)
(*     writing, and std's stdout turns the EBADF of write(2) into Ok.      *)
(*     The program never reopens fd 1, so this holds for a whole run or    *)
(*     for none of it (the variable sink);                                 *)
(*   - it returns an io::Error, which ? carries out of main;               *)
(*   - the process is killed inside the write (SIGXFSZ at the file size    *)
(*     limit);                                                             *)
(*   - it never returns (a full pipe that nobody reads).                   *)
(* However the write ends short of Ok, stdout may hold nothing of the      *)
(* envelope or an unterminated fragment of it; after an io::Error it may   *)
(* also hold the whole envelope, which stayed in the buffer of std's       *)
(* stdout until the flush at exit got it out.  The output of a state whose *)
(* status is not "running" is stdout as the process left it.               *)
(***************************************************************************)
EXTENDS Integers, Sequences, FiniteSets, TLC

VARIABLES
    node,      \* main.rs:144  the Node { node_id, msg_id, messages }
    output,    \* main.rs:140  the envelopes written to stdout, in order
    torn,      \* main.rs:27   stdout ends in a fragment of an envelope
    sink,      \* main.rs:140  fd 1 as the process got it: "writable" or not
    status,    \* main.rs:138  "running", "done" (Ok(())), the diagnostic the
               \*              process died with (an Err of main or a panic),
               \*              or how it stopped inside a write
    nread,     \* main.rs:146  number of records taken from stdin so far
    made       \* identifiers built by format! for (node_id, msg_id) pairs

vars == <<node, output, torn, sink, status, nread, made>>

----------------------------------------------------------------------------
(* Bounds *)

MaxSteps == 4        \* records read from stdin in one run
MaxGenMsgId == 12    \* largest msg_id formatted in SpecGen
MaxMade == 2         \* identifiers compared with each other in SpecGen

----------------------------------------------------------------------------
(* Option *)

None == <<>>
Some(v) == <<v>>
IsSome(o) == o # <<>>
Unwrap(o) == o[1]

----------------------------------------------------------------------------
(* Input alphabet *)

\* node identifiers format! is applied to; some contain the separator or digits
GenNodeIds == {"n", "n1", "n11", "n#", "n#1", "n#1#"}
Topologies == {"t1", "t2"}

\* src and body.msg_id of an inbound envelope (msg_id is Option<usize>)
Headers == {[src |-> "c1", msg_id |-> None], [src |-> "c2", msg_id |-> Some(1)]}

\* struct Message / struct Body
Message(h, payload) ==
    [src |-> h.src, dest |-> "n1",
     body |-> [msg_id |-> h.msg_id, in_reply_to |-> None, payload |-> payload]]

\* enum Payload
PInit(node_id) == [type |-> "init", node_id |-> node_id, node_ids |-> <<node_id>>]
PInitOk == [type |-> "init_ok"]
PEcho(echo) == [type |-> "echo", echo |-> echo]
PEchoOk(echo) == [type |-> "echo_ok", echo |-> echo]
PGenerate == [type |-> "generate"]
PGenerateOk(id) == [type |-> "generate_ok", id |-> id]
PBroadcast(message) == [type |-> "broadcast", message |-> message]
PBroadcastOk == [type |-> "broadcast_ok"]
PRead == [type |-> "read"]
PReadOk(messages) == [type |-> "read_ok", messages |-> messages]
PTopology(topology) == [type |-> "topology", topology |-> topology]
PTopologyOk == [type |-> "topology_ok"]

\* each header with a node identifier of its own
InitMsgs == {Message(h, PInit(IF IsSome(h.msg_id) THEN "n#1" ELSE "n1")) : h \in Headers}
InitOkMsgs == {Message(h, PInitOk) : h \in Headers}
\* each header with a string of its own: the empty one and one holding "#"
EchoMsgs == {Message(h, PEcho(IF IsSome(h.msg_id) THEN "hi#" ELSE "")) : h \in Headers}
EchoOkMsgs == {Message(h, PEchoOk("hi#")) : h \in Headers}
GenerateMsgs == {Message(h, PGenerate) : h \in Headers}
GenerateOkMsgs == {Message(h, PGenerateOk("n1#0")) : h \in Headers}
\* each header with a value of its own
BroadcastMsgs == {Message(h, PBroadcast(IF IsSome(h.msg_id) THEN 7 ELSE 5)) : h \in Headers}
BroadcastOkMsgs == {Message(h, PBroadcastOk) : h \in Headers}
ReadMsgs == {Message(h, PRead) : h \in Headers}
ReadOkMsgs == {Message(h, PReadOk(<<5>>)) : h \in Headers}
TopologyMsgs == {Message(h, PTopology(t)) : h \in Headers, t \in Topologies}
TopologyOkMsgs == {Message(h, PTopologyOk) : h \in Headers}

Requests ==
    InitMsgs \cup EchoMsgs \cup GenerateMsgs \cup BroadcastMsgs
        \cup ReadMsgs \cup TopologyMsgs
Acks == EchoOkMsgs \cup BroadcastOkMsgs \cup ReadOkMsgs \cup TopologyOkMsgs
Unexpected == InitOkMsgs \cup GenerateOkMsgs
Inputs == Requests \cup Acks \cup Unexpected

----------------------------------------------------------------------------
(* format!("{}#{}", node_id, msg_id) *)

Digit(d) ==
    CASE d = 0 -> "0" [] d = 1 -> "1" [] d = 2 -> "2" [] d = 3 -> "3"
      [] d = 4 -> "4" [] d = 5 -> "5" [] d = 6 -> "6" [] d = 7 -> "7"
      [] d = 8 -> "8" [] d = 9 -> "9"

\* Display for usize: decimal, no leading zeros
RECURSIVE Dec(_)
Dec(n) == IF n < 10 THEN Digit(n) ELSE Dec(n \div 10) \o Digit(n % 10)

\* variant: node_id and counter are joined without the separator
unique_id_no_separator(node_id, msg_id) == node_id \o Dec(msg_id)

\* variant: the counter is left out of the identifier
unique_id_no_counter(node_id, msg_id) == node_id \o "#"

unique_id(node_id, msg_id) == node_id \o "#" \o Dec(msg_id)

----------------------------------------------------------------------------
(* Message::reply and Node::step, as functions of the node and the input.  *)
(* Each returns the node afterwards, the envelopes that reach stdout,      *)
(* whether a fragment follows them, and the result: "ok", or the message   *)
(* of the Err carried up by ? or of the failed expect.  w is what becomes  *)
(* of the write to stdout, should reply come to it.                        *)

ErrInitOk == "node received init_ok message"
ErrGenerateOk == "node received generate_ok message"
ErrDeserialize == "input from stdin could not be deserialized"
PanicUninit == "node to be initialized"

\* the io::Error that serde_json::to_writer or write_all may hand back; the
\* kinds are those of the operating system, of which these are three
WriteErrors ==
    {"No space left on device (os error 28)",
     "Broken pipe (os error 32)",
     "Resource temporarily unavailable (os error 11)"}

\* the process stops inside the write: killed by the signal, or parked in
\* write(2) for good
Killed == "killed by SIGXFSZ"
Blocked == "blocked in write"
WriteStops == {Killed, Blocked}

\* what of the envelope is on stdout once the process has ended or stopped
Landings == {"nothing", "fragment", "envelope"}

\* the write returns Ok and the envelope is on stdout
Landed == [err |-> "ok", lands |-> "envelope"]

\* the write returns Ok and nothing is on stdout (EBADF, which std swallows)
Swallowed == [err |-> "ok", lands |-> "nothing"]

\* what the two writes of a reply to stdout may come to
Stdout ==
    {Landed, Swallowed}
        \cup {[err |-> e, lands |-> l] : e \in WriteErrors, l \in Landings}
        \cup {[err |-> e, lands |-> l] : e \in WriteStops, l \in {"nothing", "fragment"}}

Outcome(n, out, res) == [node |-> n, out |-> out, torn |-> FALSE, res |-> res]

\* the envelopes on stdout after a write that came to w
landed(envelope, w) == IF w.lands = "envelope" THEN <<envelope>> ELSE <<>>

\* a write that does not return Ok: msg_id is not advanced, and the Err goes
\* up through ? or the process stops where it is
failed_write(n, envelope, w) ==
    [node |-> n,
     out |-> landed(envelope, w),
     torn |-> w.lands = "fragment",
     res |-> w.err]

\* variant: a request without msg_id is answered with in_reply_to 0
reply_correlation_or_zero(self, n, payload, w) ==
    IF ~IsSome(n.node_id)
    THEN Outcome(n, <<>>, PanicUninit)
    ELSE LET envelope ==
                [src |-> Unwrap(n.node_id),
                 dest |-> self.src,
                 body |-> [msg_id |-> Some(n.msg_id),
                           in_reply_to |-> IF IsSome(self.body.msg_id)
                                           THEN self.body.msg_id
                                           ELSE Some(0),
                           payload |-> payload]]
         IN  IF w.err # "ok"
             THEN failed_write(n, envelope, w)
             ELSE Outcome([n EXCEPT !.msg_id = @ + 1], landed(envelope, w), "ok")

\* variant: an absent node_id is replaced by the empty string
reply_unwrap_or_default(self, n, payload, w) ==
    LET envelope ==
                [src |-> IF IsSome(n.node_id) THEN Unwrap(n.node_id) ELSE "",
                 dest |-> self.src,
                 body |-> [msg_id |-> Some(n.msg_id),
                           in_reply_to |-> self.body.msg_id,
                           payload |-> payload]]
         IN  IF w.err # "ok"
             THEN failed_write(n, envelope, w)
             ELSE Outcome([n EXCEPT !.msg_id = @ + 1], landed(envelope, w), "ok")

\* variant: the reply is addressed to the request's dest instead of its src
reply_to_dest(self, n, payload, w) ==
    IF ~IsSome(n.node_id)
    THEN Outcome(n, <<>>, PanicUninit)
    ELSE LET envelope ==
                [src |-> Unwrap(n.node_id),
                 dest |-> self.dest,
                 body |-> [msg_id |-> Some(n.msg_id),
                           in_reply_to |-> self.body.msg_id,
                           payload |-> payload]]
         IN  IF w.err # "ok"
             THEN failed_write(n, envelope, w)
             ELSE Outcome([n EXCEPT !.msg_id = @ + 1], landed(envelope, w), "ok")

\* variant: in_reply_to is never filled in
reply_no_correlation(self, n, payload, w) ==
    IF ~IsSome(n.node_id)
    THEN Outcome(n, <<>>, PanicUninit)
    ELSE LET envelope ==
                [src |-> Unwrap(n.node_id),
                 dest |-> self.src,
                 body |-> [msg_id |-> Some(n.msg_id),
                           in_reply_to |-> None,
                           payload |-> payload]]
         IN  IF w.err # "ok"
             THEN failed_write(n, envelope, w)
             ELSE Outcome([n EXCEPT !.msg_id = @ + 1], landed(envelope, w), "ok")

\* variant: the counter is not advanced after the write
reply_no_increment(self, n, payload, w) ==
    IF ~IsSome(n.node_id)
    THEN Outcome(n, <<>>, PanicUninit)
    ELSE LET envelope ==
                [src |-> Unwrap(n.node_id),
                 dest |-> self.src,
                 body |-> [msg_id |-> Some(n.msg_id),
                           in_reply_to |-> self.body.msg_id,
                           payload |-> payload]]
         IN  IF w.err # "ok"
             THEN failed_write(n, envelope, w)
             ELSE Outcome(n, landed(envelope, w), "ok")

reply(self, n, payload, w) ==
    IF ~IsSome(n.node_id)
    THEN Outcome(n, <<>>, PanicUninit)
    ELSE LET envelope ==
                [src |-> Unwrap(n.node_id),
                 dest |-> self.src,
                 body |-> [msg_id |-> Some(n.msg_id),
                           in_reply_to |-> self.body.msg_id,
                           payload |-> payload]]
         IN  IF w.err # "ok"
             THEN failed_write(n, envelope, w)
             ELSE Outcome([n EXCEPT !.msg_id = @ + 1], landed(envelope, w), "ok")

\* variant: node_id is set only while it is absent
stepInit_keep_first(n, input, w) ==
    reply(input,
          IF IsSome(n.node_id) THEN n
          ELSE [n EXCEPT !.node_id = Some(input.body.payload.node_id)],
          PInitOk, w)

stepInit(n, input, w) ==
    reply(input, [n EXCEPT !.node_id = Some(input.body.payload.node_id)], PInitOk, w)

\* variant: init_ok is acknowledged like the other *_ok messages
stepInitOk_ignored(n, input, w) == Outcome(n, <<>>, "ok")

stepInitOk(n, input, w) == Outcome(n, <<>>, ErrInitOk)

stepEcho(n, input, w) == reply(input, n, PEchoOk(input.body.payload.echo), w)

\* variant: an echo_ok is answered as if it were an echo
stepEchoOk_replies(n, input, w) == reply(input, n, PEchoOk(input.body.payload.echo), w)

stepEchoOk(n, input, w) == Outcome(n, <<>>, "ok")

stepGenerate(n, input, w) ==
    IF ~IsSome(n.node_id)
    THEN Outcome(n, <<>>, PanicUninit)
    ELSE reply(input, n, PGenerateOk(unique_id(Unwrap(n.node_id), n.msg_id)), w)

stepGenerateOk(n, input, w) == Outcome(n, <<>>, ErrGenerateOk)

\* variant: a value already stored is not stored again
stepBroadcast_dedup(n, input, w) ==
    reply(input,
          IF \E i \in 1..Len(n.messages) : n.messages[i] = input.body.payload.message
          THEN n
          ELSE [n EXCEPT !.messages = Append(@, input.body.payload.message)],
          PBroadcastOk, w)

stepBroadcast(n, input, w) ==
    reply(input,
          [n EXCEPT !.messages = Append(@, input.body.payload.message)],
          PBroadcastOk, w)

stepBroadcastOk(n, input, w) == Outcome(n, <<>>, "ok")

stepRead(n, input, w) == reply(input, n, PReadOk(n.messages), w)

stepReadOk(n, input, w) == Outcome(n, <<>>, "ok")

stepTopology(n, input, w) == reply(input, n, PTopologyOk, w)

stepTopologyOk(n, input, w) == Outcome(n, <<>>, "ok")

step(n, input, w) ==
    CASE input.body.payload.type = "init" -> stepInit(n, input, w)
      [] input.body.payload.type = "init_ok" -> stepInitOk(n, input, w)
      [] input.body.payload.type = "echo" -> stepEcho(n, input, w)
      [] input.body.payload.type = "echo_ok" -> stepEchoOk(n, input, w)
      [] input.body.payload.type = "generate" -> stepGenerate(n, input, w)
      [] input.body.payload.type = "generate_ok" -> stepGenerateOk(n, input, w)
      [] input.body.payload.type = "broadcast" -> stepBroadcast(n, input, w)
      [] input.body.payload.type = "broadcast_ok" -> stepBroadcastOk(n, input, w)
      [] input.body.payload.type = "read" -> stepRead(n, input, w)
      [] input.body.payload.type = "read_ok" -> stepReadOk(n, input, w)
      [] input.body.payload.type = "topology" -> stepTopology(n, input, w)
      [] input.body.payload.type = "topology_ok" -> stepTopologyOk(n, input, w)

----------------------------------------------------------------------------
(* main: the loop over the records of stdin *)

NewNode == [node_id |-> None, msg_id |-> 0, messages |-> <<>>]

Init ==
    /\ node = NewNode
    /\ output = <<>>
    /\ torn = FALSE
    /\ sink \in {"writable", "unwritable"}
    /\ status = "running"
    /\ nread = 0
    /\ made = {}

\* one iteration of the for loop on a record that decodes to `input`, with w
\* the fate of the write of its reply, if it comes to one
Handle(input, w) ==
    /\ status = "running"
    /\ nread < MaxSteps
    /\ LET r == step(node, input, w) IN
        /\ node' = r.node
        /\ output' = output \o r.out
        /\ torn' = r.torn
        /\ status' = IF r.res = "ok" THEN "running" ELSE r.res
    /\ nread' = nread + 1
    /\ UNCHANGED <<sink, made>>

\* what a write may come to in this run
Fates == IF sink = "writable" THEN Stdout \ {Swallowed} ELSE {Swallowed}

\* the arms that reply draw what becomes of the write; the others write nothing
RecvInit == \E m \in InitMsgs, w \in Fates : Handle(m, w)
RecvInitOk == \E m \in InitOkMsgs : Handle(m, Landed)
RecvEcho == \E m \in EchoMsgs, w \in Fates : Handle(m, w)
RecvEchoOk == \E m \in EchoOkMsgs : Handle(m, Landed)
RecvGenerate == \E m \in GenerateMsgs, w \in Fates : Handle(m, w)
RecvGenerateOk == \E m \in GenerateOkMsgs : Handle(m, Landed)
RecvBroadcast == \E m \in BroadcastMsgs, w \in Fates : Handle(m, w)
RecvBroadcastOk == \E m \in BroadcastOkMsgs : Handle(m, Landed)
RecvRead == \E m \in ReadMsgs, w \in Fates : Handle(m, w)
RecvReadOk == \E m \in ReadOkMsgs : Handle(m, Landed)
RecvTopology == \E m \in TopologyMsgs, w \in Fates : Handle(m, w)
RecvTopologyOk == \E m \in TopologyOkMsgs : Handle(m, Landed)

\* variant: a record that does not deserialize is skipped
RecvMalformed_skipped ==
    /\ status = "running"
    /\ nread < MaxSteps
    /\ nread' = nread + 1
    /\ UNCHANGED <<node, output, torn, sink, status, made>>

\* a record that does not deserialize: the ? on line 147 returns the Err
RecvMalformed ==
    /\ status = "running"
    /\ nread < MaxSteps
    /\ status' = ErrDeserialize
    /\ nread' = nread + 1
    /\ UNCHANGED <<node, output, torn, sink, made>>

\* variant: the end of the input is reported as an error
EndOfInput_is_error ==
    /\ status = "running"
    /\ status' = ErrDeserialize
    /\ UNCHANGED <<node, output, torn, sink, nread, made>>

\* end of input: the iterator is exhausted and main returns Ok(())
EndOfInput ==
    /\ status = "running"
    /\ status' = "done"
    /\ UNCHANGED <<node, output, torn, sink, nread, made>>

Next ==
    \/ RecvInit
    \/ RecvInitOk
    \/ RecvEcho
    \/ RecvEchoOk
    \/ RecvGenerate
    \/ RecvGenerateOk
    \/ RecvBroadcast
    \/ RecvBroadcastOk
    \/ RecvRead
    \/ RecvReadOk
    \/ RecvTopology
    \/ RecvTopologyOk
    \/ RecvMalformed
    \/ EndOfInput

Spec == Init /\ [][Next]_vars

\* Over a finite input the blocking read returns a record or the end of the
\* input, so while the process runs some step of Next is taken.  Nothing is
\* assumed of the write: that it never returns, or that the process dies in
\* it, are steps of Next like its returning, to a state where the process
\* has stopped and no step is enabled.
SpecLive == Init /\ [][Next]_vars /\ WF_vars(Next)

----------------------------------------------------------------------------
(* The identifier format on its own: unique_id applied to pairs drawn from *)
(* GenNodeIds x 0..MaxGenMsgId, as the nodes of a cluster would apply it.  *)

Format(nid, mid) ==
    /\ Cardinality(made) < MaxMade
    /\ made' = made \cup {[node_id |-> nid, msg_id |-> mid, id |-> unique_id(nid, mid)]}
    /\ UNCHANGED <<node, output, torn, sink, status, nread>>

FormatAny == \E nid \in GenNodeIds, mid \in 0..MaxGenMsgId : Format(nid, mid)

SpecGen == Init /\ [][FormatAny]_vars

----------------------------------------------------------------------------
(* Properties *)

\* the record m is handled, whatever becomes of the write
Handles(m) == \E w \in Stdout : Handle(m, w)

\* the record m is handled and the loop goes on to the next record: a step
\* that fails ends the process, as it should, and is no part of what a claim
\* says of the request's reply
Continues(m) == status' = "running" /\ Handles(m)

\* the envelope written last
Last(s) == s[Len(s)]

\* the writes that do not return Ok: an io::Error, or the process stops
Failures == {w \in Stdout : w.err # "ok"}

\* the writes after which the whole envelope is on stdout
Lands == {w \in Stdout : w.lands = "envelope"}

\* the record m is handled and its reply reaches stdout whole, by a write that
\* succeeds or by the flush at exit after one that failed
Replies(m) == Len(output') = Len(output) + 1 /\ \E w \in Lands : Handle(m, w)

\* the record m is handled and the write of its reply does not return Ok,
\* leaving the run ended or stopped and stdout with what the write let through
WriteFails(m) ==
    \E w \in Failures :
        /\ status' = w.err
        /\ torn' = (w.lands = "fragment")
        /\ (output' # output) = (w.lands = "envelope")
        /\ Handle(m, w)

\* the envelope e carries a payload of the given type tag
IsReply(e, type) == e.body.payload.type = type

\* C1  Reply correlation: whenever a request that carries a msg_id is handled
\* and a reply is written for it, that reply's in_reply_to is the request's
\* msg_id, whatever was handled before.
ReplyCorrelation ==
    [][\A m \in Requests :
          (IsSome(m.body.msg_id) /\ Replies(m))
              => Last(output').body.in_reply_to = m.body.msg_id]_vars

ReplyCorrelationWitness ==
    /\ Len(output) >= 3
    /\ Last(output).body.in_reply_to = Some(1)
    /\ output[2].body.in_reply_to = None

\* C2  Counter monotonicity: the replies on stdout carry msg_id
\* 0, 1, ..., N-1 in emission order, without repeat or gap, whatever was
\* received in between.  The node's counter stands at N as long as every
\* write that returned Ok put its envelope on stdout: it is N, or N-1 when
\* the last write returned an error and the flush at exit got the envelope
\* out all the same.  With stdout not open for writing nothing is emitted, so
\* N is 0, while the counter has advanced once for each request handled.
CounterMonotonic ==
    /\ \A i \in 1..Len(output) : output[i].body.msg_id = Some(i - 1)
    /\ (sink = "writable" /\ status \notin WriteErrors)
            => node.msg_id = Len(output)
    /\ (sink = "writable" /\ status \in WriteErrors)
            => node.msg_id \in {Len(output) - 1, Len(output)}
    /\ sink = "unwritable" => (output = <<>> /\ node.msg_id <= nread)

CounterMonotonicWitness ==
    /\ sink = "writable"
    /\ Len(output) = 3
    /\ nread = 4
    /\ status = "running"

\* C3  Generate uniqueness within one node: no two GenerateOk replies of a run
\* carry the same id, also when an Init in between changed node_id.
GenerateUniqueLocal ==
    \A i, j \in 1..Len(output) :
        (i # j /\ IsReply(output[i], "generate_ok") /\ IsReply(output[j], "generate_ok"))
            => output[i].body.payload.id # output[j].body.payload.id

GenerateUniqueLocalWitness ==
    \E i, j \in 1..Len(output) :
        /\ i < j
        /\ IsReply(output[i], "generate_ok")
        /\ IsReply(output[j], "generate_ok")
        /\ output[i].src # output[j].src

\* C4  Generate uniqueness across the cluster: identifiers built from
\* distinct (node_id, msg_id) pairs differ, also for node identifiers that
\* contain "#" or end in digits.
GenerateUniqueGlobal ==
    \A a, b \in made :
        (a.node_id # b.node_id \/ a.msg_id # b.msg_id) => a.id # b.id

GenerateUniqueGlobalWitness ==
    \E a, b \in made :
        /\ a.node_id = "n#1" /\ a.msg_id = 1
        /\ b.node_id = "n#" /\ b.msg_id = 11

\* C5  Broadcast/Read round-trip, step by step: handling a Broadcast on an
\* initialized node appends its value to the stored sequence, nothing else
\* changes that sequence, every ReadOk written carries exactly the stored
\* sequence, and envelopes already written are never changed.
BroadcastReadRoundTrip ==
    [][/\ \A m \in BroadcastMsgs :
            (IsSome(node.node_id) /\ Handles(m))
                => node'.messages = Append(node.messages, m.body.payload.message)
       /\ node'.messages # node.messages => \E m \in BroadcastMsgs : Handles(m)
       /\ \A m \in ReadMsgs :
            Replies(m) => Last(output').body.payload = PReadOk(node.messages)
       /\ SubSeq(output', 1, Len(output)) = output]_vars

BroadcastReadRoundTripWitness ==
    /\ Len(output) = 4
    /\ output[4].body.payload = PReadOk(<<5, 7>>)
    /\ IsReply(output[2], "broadcast_ok")
    /\ IsReply(output[3], "broadcast_ok")

\* C6  Unexpected-reply fatality: handling InitOk or GenerateOk, in any node
\* state, writes nothing and ends the run with that error, and once the run
\* has ended nothing more is read or written.
UnexpectedReplyFatal ==
    [][/\ \A m \in InitOkMsgs :
            Handle(m, Landed)
                => (status' = ErrInitOk /\ output' = output /\ node' = node)
       /\ \A m \in GenerateOkMsgs :
            Handle(m, Landed)
                => (status' = ErrGenerateOk /\ output' = output /\ node' = node)
       /\ status \in {ErrInitOk, ErrGenerateOk}
            => (output' = output /\ nread' = nread /\ status' = status)]_vars

UnexpectedReplyFatalWitness ==
    /\ status = ErrInitOk
    /\ Len(output) >= 2
    /\ nread = Len(output) + 1

\* C7  Uninitialized precondition: while node_id is absent, handling Echo,
\* Generate, Broadcast, Read or Topology writes no reply and ends the run
\* with the "node to be initialized" panic, after which nothing is written.
UninitializedFatal ==
    [][/\ \A m \in Requests \ InitMsgs :
            (~IsSome(node.node_id) /\ Handles(m))
                => (status' = PanicUninit /\ output' = output)
       /\ status = PanicUninit => (output' = output /\ status' = status)]_vars

UninitializedFatalWitness ==
    /\ status = PanicUninit
    /\ output = <<>>
    /\ nread = 2

\* C8  Reply addressing: the reply written for a request has dest equal to
\* the request's src and src equal to the node's identifier when the reply
\* is built, which for an Init is the node_id that Init carries.
ReplyAddressing ==
    [][\A m \in Requests :
          Replies(m)
              => /\ Last(output').dest = m.src
                 /\ Last(output').src = Unwrap(node'.node_id)
                 /\ m.body.payload.type = "init"
                        => Last(output').src = m.body.payload.node_id
                 /\ m.body.payload.type # "init"
                        => Last(output').src = Unwrap(node.node_id)]_vars

ReplyAddressingWitness ==
    /\ Len(output) >= 2
    /\ IsReply(Last(output), "init_ok")
    /\ Last(output).src = "n#1"
    /\ Last(output).dest = "c2"
    /\ output[1].src = "n1"

\* C9 as stated: once node_id is present it never changes again.
NodeIdImmutable ==
    [][IsSome(node.node_id) => node'.node_id = node.node_id]_vars

\* C9 amended: node_id is absent at the start, only an Init changes it, and
\* every Init handled, the first or a later one, sets it to the node_id that
\* Init carries; so it is present from the first Init on and equals the
\* node_id of the most recent Init.
NodeIdLatestInit ==
    /\ node.node_id = None
    /\ [][/\ \A m \in InitMsgs :
                Handles(m) => node'.node_id = Some(m.body.payload.node_id)
          /\ node'.node_id # node.node_id => \E m \in InitMsgs : Handles(m)]_vars

NodeIdLatestInitWitness ==
    /\ Len(output) >= 3
    /\ output[1].src = "n1"
    /\ node.node_id = Some("n#1")

ReplyTypes ==
    {"init_ok", "echo_ok", "generate_ok", "broadcast_ok", "read_ok", "topology_ok"}

\* C17 as stated: every body written is a reply with in_reply_to present.
InReplyToAlwaysPresent ==
    \A i \in 1..Len(output) :
        /\ output[i].body.payload.type \in ReplyTypes
        /\ IsSome(output[i].body.in_reply_to)

\* C17 amended: every body written is a reply, written while a request is
\* handled, and its in_reply_to is that request's msg_id: present with that
\* value when the request carries a msg_id, absent when the request has none.
InReplyToCopiesRequest ==
    [][/\ \A m \in Requests :
            Replies(m)
                => /\ Last(output').body.payload.type \in ReplyTypes
                   /\ Last(output').body.in_reply_to = m.body.msg_id
                   /\ IsSome(Last(output').body.in_reply_to) <=> IsSome(m.body.msg_id)
       /\ output' # output => \E m \in Requests : Replies(m)]_vars

InReplyToCopiesRequestWitness ==
    /\ Len(output) = 2
    /\ output[1].body.in_reply_to = Some(1)
    /\ output[2].body.in_reply_to = None
    /\ IsReply(output[2], "echo_ok")

\* the step fails because of what the record is: it does not decode, it is an
\* InitOk or GenerateOk, or it is a request other than Init before any Init
BadRecord ==
    \/ RecvMalformed
    \/ \E m \in Unexpected : Handle(m, Landed)
    \/ ~IsSome(node.node_id) /\ \E m \in Requests \ InitMsgs : Handles(m)

\* C18  Normal termination: every run leaves the loop or stops inside a
\* write; it ends otherwise than with Ok at the end of the input only through
\* a record that does not decode, an InitOk or GenerateOk, a request before
\* the first Init, or a write that does not succeed; so an input that starts
\* with Init and holds none of these, with every write succeeding, ends at
\* the end of the input with Ok.  On the way every request whose write
\* succeeds is answered by exactly one envelope and the *_ok messages by
\* none.  A write succeeds when it returns Ok with the envelope on stdout: the
\* Ok that std reports for a stdout that is not open is not a success.
NormalTermination ==
    /\ <>(status # "running")
    /\ [][/\ status' \notin {"running", "done"}
                => ((\E m \in Requests : WriteFails(m)) \/ BadRecord)
          /\ status' = "done" => (EndOfInput /\ output' = output /\ node' = node)
          /\ (status' = "running" /\ Len(output') # Len(output) + 1)
                => \A m \in Requests : ~Handle(m, Landed)
          /\ output' # output => \A m \in Acks : ~Handle(m, Landed)]_vars
    /\ [](\A m \in Requests :
            (status = "running" /\ (IsSome(node.node_id) \/ m \in InitMsgs))
                => step(node, m, Landed).res = "ok")

NormalTerminationWitness ==
    /\ sink = "writable"
    /\ status = "done"
    /\ nread = 4
    /\ Len(output) = 3
    /\ IsReply(output[1], "init_ok")

\* C19  A step that fails fatally leaves the node as it was before the step.
FailedStepKeepsNode ==
    [][status' \notin {"running", "done"} => node' = node]_vars

\* C20  Initialization ordering: while node_id is absent, msg_id is 0 and
\* nothing has been written; the first envelope ever written is an InitOk
\* and carries msg_id 0.
InitFirst ==
    /\ ~IsSome(node.node_id) => (node.msg_id = 0 /\ output = <<>> /\ ~torn)
    /\ output # <<>>
        => (IsReply(output[1], "init_ok") /\ output[1].body.msg_id = Some(0))

InitFirstWitness ==
    /\ ~IsSome(node.node_id)
    /\ status = "running"
    /\ nread = 3

====
